---- MODULE Spec2Model ----
(***************************************************************************)
(* Admission control and credit accounting of the letter-generation        *)
(* service: the PostgreSQL allowance functions (deduct_letter_allowance,   *)
(* add_letter_allowances, reset_monthly_allowances), the in-process rate   *)
(* limiter of the proxy (isRateLimited) and the free-trial decision of the *)
(* /api/generate-letter route.                                             *)
(***************************************************************************)
EXTENDS Integers, Sequences, FiniteSets, TLC

(***************************************************************************)
(* Bounds of the model.                                                    *)
(***************************************************************************)
NProcs == 2
NSubs == 2
MaxCredits == 1
MaxAdds == 1
MaxMonth == 1
MaxRequests == 7
MaxTicks == 2
MaxResets == 2

Procs == 1..NProcs
SubIds == 1..NSubs
Users == {"u1", "u2"}

(***************************************************************************)
(* SQL NULL: a nullable column holds <<>> (NULL) or <<v>>.                 *)
(***************************************************************************)
NULL == <<>>
Some(v) == <<v>>
COALESCE(x, d) == IF x = NULL THEN d ELSE x[1]

Max(a, b) == IF a >= b THEN a ELSE b

VARIABLES
  profiles,        \* table profiles: user -> [is_super_user]
  subscriptions,   \* table subscriptions: id -> row
  month,           \* DATE_TRUNC('month', NOW()) as a month index
  pc,              \* position of each database session inside its deduct_letter_allowance call
  u_id,            \* argument of the call each session is running or ran last
  sub_record,      \* plpgsql variable sub_record of each session: the column read later, id
  ret,             \* value returned by the last finished call of each session
  nAdds,           \* number of add_letter_allowances calls made
  k0,              \* remaining_letters of every subscription in the initial state
  creditsAdded,    \* credits added to every subscription since the initial state
  allowedCount,    \* per user: calls that returned TRUE on the subscription path
  resetRuns,       \* runs of the monthly reset job in the current month
  letters,         \* table letters: number of stored letters of every user
  gpc,             \* position of each /api/generate-letter request
  gOutcome,        \* determination of each /api/generate-letter request
  everGenerated,   \* per user: a letter of this user has been stored at some time
  everDeleted,     \* per user: letters of this user have been deleted at some time
  generateTextCalled, \* per request: generateText was called for it
  rpcError,        \* per request: supabase.rpc('deduct_letter_allowance') returned an error
  auditLog,        \* per request: number of audit records written for it
  rateLimitStore,  \* Map clientId -> {count, resetTime}; NULL where the map has no entry
  now,             \* Date.now()
  timers,          \* pending setTimeout callbacks: [clientId, now, fireAt]
  result,          \* the request checked last and what isRateLimited returned for it
  response,        \* what proxy answered to the request it handled last
  admin_session,   \* cookie admin_session the client holds: NULL or [userId, lastActivity]
  endpointCount,   \* per client and API path: requests counted in the client's current window
  endpointAllowed, \* per client and API path: requests of the current window that were not limited
  nRequests,       \* number of requests checked
  nTicks           \* number of clock advances

vars == <<profiles, subscriptions, month, pc, u_id, sub_record, ret,
          nAdds, k0, creditsAdded, allowedCount, resetRuns,
          letters, gpc, gOutcome, everGenerated, everDeleted,
          generateTextCalled, rpcError, auditLog,
          rateLimitStore, now, timers, result, response, admin_session,
          endpointCount, endpointAllowed, nRequests, nTicks>>

rateVars == <<rateLimitStore, now, timers, result, response, admin_session,
              endpointCount, endpointAllowed, nRequests, nTicks>>

requestVars == <<generateTextCalled, rpcError, auditLog>>

routeVars == <<letters, gpc, gOutcome, everGenerated, everDeleted, requestVars>>

dbVars == <<profiles, subscriptions, month>>
callVars == <<pc, u_id, sub_record, ret>>
auxVars == <<nAdds, k0, creditsAdded, allowedCount, resetRuns>>

(***************************************************************************)
(* Tables.                                                                 *)
(***************************************************************************)
SubscriptionStatus == {"active", "canceled", "past_due"}

PlanNames == {"one_time", "monthly_standard", "annual"}

\* the plan names above and the premium plan
AllPlanNames == PlanNames \cup {"monthly_premium"}

NoRecord == [id |-> 0]

\* the roles a caller of the database API can have
Roles == {"anon", "authenticated", "service_role"}

\* GRANT ALL ON FUNCTION ... TO "anon" / "authenticated" / "service_role"
Grants ==
  [add_letter_allowances |-> {"anon", "authenticated", "service_role"},
   deduct_letter_allowance |-> {"anon", "authenticated", "service_role"},
   reset_monthly_allowances |-> {"anon", "authenticated", "service_role"}]

\* the super-user flag is not honoured
IsSuperUser_ignored(u) == FALSE

\* SELECT COALESCE(is_super_user, FALSE) FROM profiles WHERE id = u
IsSuperUser(u) == COALESCE(profiles[u].is_super_user, FALSE)

\* WHERE user_id = u AND status = 'active'
ActiveSubscriptions(u) ==
  {s \in SubIds : subscriptions[s].user_id = u /\ subscriptions[s].status = "active"}

\* WHERE user_id = u AND status = 'active'
\*   AND (current_period_end IS NULL OR current_period_end > NOW())
CurrentSubscriptions(u) ==
  {s \in ActiveSubscriptions(u) :
     \/ subscriptions[s].current_period_end = NULL
     \/ subscriptions[s].current_period_end[1] > month}

\* check_letter_allowance(u_id): the row it returns
check_letter_allowance(u) ==
  IF profiles[u].is_super_user = Some(TRUE)
    THEN [has_allowance |-> TRUE, remaining |-> 999, plan_name |-> Some("unlimited"),
          is_super |-> TRUE]
    ELSE IF CurrentSubscriptions(u) = {}
      THEN [has_allowance |-> FALSE, remaining |-> 0, plan_name |-> NULL,
            is_super |-> FALSE]
      ELSE LET active_subscription ==
                 subscriptions[CHOOSE s \in CurrentSubscriptions(u) :
                                 \A t \in CurrentSubscriptions(u) :
                                   subscriptions[t].created_at <= subscriptions[s].created_at]
               remaining_count == active_subscription.credits_remaining
           IN [has_allowance |-> remaining_count > 0, remaining |-> remaining_count,
               plan_name |-> active_subscription.plan_type, is_super |-> FALSE]

\* the oldest row is taken: ORDER BY created_at ASC
LatestActiveSubscription_oldest(u) ==
  CHOOSE s \in ActiveSubscriptions(u) :
    \A t \in ActiveSubscriptions(u) :
      subscriptions[s].created_at <= subscriptions[t].created_at

\* ORDER BY created_at DESC LIMIT 1
LatestActiveSubscription(u) ==
  CHOOSE s \in ActiveSubscriptions(u) :
    \A t \in ActiveSubscriptions(u) :
      subscriptions[t].created_at <= subscriptions[s].created_at

\* the test lets a counter of 0 through
NoLettersRemaining_strict(rec) == rec.remaining_letters < 0

\* IF COALESCE(sub_record.remaining_letters, 0) <= 0 THEN RETURN FALSE
NoLettersRemaining(rec) == rec.remaining_letters <= 0

\* the premium plan gives the 12 letters of the function's description
LettersToAdd_twelve(plan_name) ==
  CASE plan_name \in {"one_time", "single_letter"} -> 1
    [] plan_name \in {"standard_4_month", "monthly_standard"} -> 4
    [] plan_name \in {"premium_8_month", "monthly_premium"} -> 12
    [] OTHER -> 0

\* letters_to_add := CASE ... END
LettersToAdd(plan_name) ==
  CASE plan_name \in {"one_time", "single_letter"} -> 1
    [] plan_name \in {"standard_4_month", "monthly_standard"} -> 4
    [] plan_name \in {"premium_8_month", "monthly_premium"} -> 8
    [] OTHER -> 0

MonthlyPlans ==
  {"standard_4_month", "premium_8_month", "monthly_standard", "monthly_premium"}

\* the premium plan is reset to the letters of the standard plan
ResetLetters_allFour(row) ==
  CASE row.plan_type \in {Some("standard_4_month"), Some("monthly_standard")} -> 4
    [] row.plan_type \in {Some("premium_8_month"), Some("monthly_premium")} -> 4
    [] OTHER -> row.remaining_letters

\* SET remaining_letters = CASE ... END of reset_monthly_allowances
ResetLetters(row) ==
  CASE row.plan_type \in {Some("standard_4_month"), Some("monthly_standard")} -> 4
    [] row.plan_type \in {Some("premium_8_month"), Some("monthly_premium")} -> 8
    [] OTHER -> row.remaining_letters

\* the date of the last reset is not looked at
DueForReset_everyRun(row) ==
  /\ row.status = "active"
  /\ row.plan_type \in {Some(pl) : pl \in MonthlyPlans}

\* WHERE clause of reset_monthly_allowances
DueForReset(row) ==
  /\ row.status = "active"
  /\ row.plan_type \in {Some(pl) : pl \in MonthlyPlans}
  /\ row.last_reset_at < month

\* the user a subscription belongs to: u1 owns the two oldest rows
SubscriptionOwner(s) == IF s <= 2 THEN "u1" ELSE "u2"

\* a row inserted with the column defaults of the table
DefaultRow(s) ==
  [user_id |-> SubscriptionOwner(s), status |-> "active", plan_type |-> NULL,
   remaining_letters |-> 0, credits_remaining |-> 0,
   last_reset_at |-> 0, created_at |-> s, current_period_end |-> NULL]

\* rows created in the order of their ids; each is active or canceled, and
\* all hold the same 0..MaxCredits letters in both counters
InitDb ==
  /\ \E flag \in {NULL, Some(TRUE)} :
       profiles = [u \in Users |->
                     [is_super_user |-> IF u = "u1" THEN flag ELSE Some(FALSE)]]
  /\ \E status \in [SubIds -> {"active", "canceled"}],
         k \in 0..MaxCredits :
       subscriptions =
         [s \in SubIds |->
            [DefaultRow(s) EXCEPT !.status = status[s],
                                  !.remaining_letters = k,
                                  !.credits_remaining = k]]
  /\ month = 0

InitCalls ==
  /\ pc = [p \in Procs |-> "idle"]
  /\ u_id = [p \in Procs |-> "u1"]
  /\ sub_record = [p \in Procs |-> NoRecord]
  /\ ret = [p \in Procs |-> NULL]
  /\ nAdds = 0
  /\ k0 = [s \in SubIds |-> subscriptions[s].remaining_letters]
  /\ creditsAdded = [s \in SubIds |-> 0]
  /\ allowedCount = [u \in Users |-> 0]
  /\ resetRuns = 0

(***************************************************************************)
(* Rate limiter of the proxy.  A path is the sequence of its segments, so  *)
(* "/api/generate-letter" is <<"api", "generate-letter">>.                 *)
(***************************************************************************)
RATE_LIMIT_WINDOW == 900000

RATE_LIMIT_MAX_REQUESTS ==
  (<<"api", "generate-letter">> :> 5) @@
  (<<"api", "create-checkout">> :> 10) @@
  (<<"api", "admin-auth", "login">> :> 5) @@
  (<<"api", "auth", "signup">> :> 3) @@
  (<<"api", "auth", "login">> :> 10) @@
  (<<"default">> :> 100)

\* delay of the cleanup callback
CleanupDelay == RATE_LIMIT_WINDOW + 1000

GenerateLetterPath == <<"api", "generate-letter">>

Paths ==
  {GenerateLetterPath, <<"api", "auth", "signup">>, <<"dashboard">>}

\* path.startsWith('/api/')
IsApiPath(path) == Len(path) >= 2 /\ path[1] = "api"

ApiPaths == {path \in Paths : IsApiPath(path)}

\* the limit of the endpoint is not looked up
MaxRequestsFor_default(path) == RATE_LIMIT_MAX_REQUESTS[<<"default">>]

\* RATE_LIMIT_MAX_REQUESTS[path] || RATE_LIMIT_MAX_REQUESTS.default
MaxRequestsFor(path) ==
  IF path \in DOMAIN RATE_LIMIT_MAX_REQUESTS
    THEN RATE_LIMIT_MAX_REQUESTS[path]
    ELSE RATE_LIMIT_MAX_REQUESTS[<<"default">>]

\* the headers of a request that decide its client id
Sources ==
  [authorization : {NULL, Some([scheme |-> "Bearer", credentials |-> "t1"]),
                    Some([scheme |-> "Basic", credentials |-> "t1"])},
   forwarded : {NULL, Some(<<"10.0.0.1", "10.0.0.9">>)},
   ip : {Some("10.0.0.1")}]

getClientId(request) ==
  IF request.authorization # NULL /\ request.authorization[1].scheme = "Bearer"
    THEN <<"user", request.authorization[1].credentials>>
    ELSE IF request.forwarded # NULL
      THEN <<"ip", Head(request.forwarded[1])>>
      ELSE <<"ip", COALESCE(request.ip, "unknown")>>

ClientIds == {getClientId(request) : request \in Sources}

\* the request is let through although the counter is one over the limit
Limited_late(count, maxRequests) == count > maxRequests + 1

\* limited: entry.count > maxRequests
Limited(count, maxRequests) == count > maxRequests

\* the window of an entry has expired: !entry || now > entry.resetTime
WindowExpired_early(entry) == entry = NULL \/ now >= entry[1].resetTime

WindowExpired(entry) == entry = NULL \/ now > entry[1].resetTime

\* every request of an open window moves its resetTime
GetOrCreate_sliding(entry) ==
  IF WindowExpired(entry)
    THEN [count |-> 0, resetTime |-> now + RATE_LIMIT_WINDOW]
    ELSE [entry[1] EXCEPT !.resetTime = now + RATE_LIMIT_WINDOW]

\* let entry = rateLimitStore.get(clientId); if (!entry || now > entry.resetTime) ...
GetOrCreate(entry) ==
  IF WindowExpired(entry)
    THEN [count |-> 0, resetTime |-> now + RATE_LIMIT_WINDOW]
    ELSE entry[1]

InitRate ==
  /\ rateLimitStore = [c \in ClientIds |-> NULL]
  /\ now = 1
  /\ timers = {}
  /\ result = NULL
  /\ response = NULL
  /\ admin_session = NULL
  /\ endpointCount = [c \in ClientIds |-> [path \in ApiPaths |-> 0]]
  /\ endpointAllowed = [c \in ClientIds |-> [path \in ApiPaths |-> 0]]
  /\ nRequests = 0
  /\ nTicks = 0

InitRequests ==
  /\ generateTextCalled = [p \in Procs |-> FALSE]
  /\ rpcError = [p \in Procs |-> FALSE]
  /\ auditLog = [p \in Procs |-> 0]

InitRoute ==
  /\ InitRequests
  /\ letters \in [Users -> 0..1]
  /\ gpc = [p \in Procs |-> "idle"]
  /\ gOutcome = [p \in Procs |-> NULL]
  /\ everGenerated = [u \in Users |-> letters[u] > 0]
  /\ everDeleted = [u \in Users |-> FALSE]

InitGate ==
  /\ InitDb
  /\ InitCalls
  /\ InitRate
  /\ InitRequests
  /\ letters = [u \in Users |-> 0]
  /\ gpc = [p \in Procs |-> "idle"]
  /\ gOutcome = [p \in Procs |-> NULL]
  /\ everGenerated = [u \in Users |-> FALSE]
  /\ everDeleted = [u \in Users |-> FALSE]

(***************************************************************************)
(* deduct_letter_allowance(u_id): one plpgsql function.  Under READ        *)
(* COMMITTED every statement reads the rows committed at the moment it     *)
(* runs, so the statements of concurrent sessions interleave.  The first   *)
(* SELECT reads table profiles only, which no operation writes, so it is   *)
(* taken in one step with the SELECT on subscriptions; the UPDATE is a     *)
(* step of its own.                                                        *)
(***************************************************************************)

\* SELECT ... INTO is_super; IF is_super THEN RETURN TRUE;
\* SELECT * INTO sub_record ...; IF NOT FOUND ...; IF ... <= 0 ...
DeductSelect(p, u) ==
  /\ pc[p] = "idle"
  /\ u_id' = [u_id EXCEPT ![p] = u]
  /\ IF IsSuperUser(u)
       THEN /\ ret' = [ret EXCEPT ![p] = Some(TRUE)]
            /\ pc' = [pc EXCEPT ![p] = "done"]
            /\ UNCHANGED sub_record
       ELSE IF ActiveSubscriptions(u) = {}
         THEN /\ ret' = [ret EXCEPT ![p] = Some(FALSE)]
              /\ pc' = [pc EXCEPT ![p] = "done"]
              /\ UNCHANGED sub_record
         ELSE LET s == LatestActiveSubscription(u)
                  rec == [id |-> s,
                          remaining_letters |-> subscriptions[s].remaining_letters]
              IN IF NoLettersRemaining(rec)
                   THEN /\ ret' = [ret EXCEPT ![p] = Some(FALSE)]
                        /\ pc' = [pc EXCEPT ![p] = "done"]
                        /\ UNCHANGED sub_record
                   ELSE /\ ret' = ret
                        /\ sub_record' = [sub_record EXCEPT ![p] = [id |-> s]]
                        /\ pc' = [pc EXCEPT ![p] = "update"]
  /\ UNCHANGED <<dbVars, auxVars>>

\* UPDATE subscriptions SET remaining_letters = remaining_letters - 1
\* WHERE id = sub_record.id; RETURN TRUE
DeductUpdate(p) ==
  /\ pc[p] = "update"
  /\ subscriptions' =
       [subscriptions EXCEPT ![sub_record[p].id].remaining_letters = @ - 1]
  /\ ret' = [ret EXCEPT ![p] = Some(TRUE)]
  /\ pc' = [pc EXCEPT ![p] = "done"]
  /\ sub_record' = [sub_record EXCEPT ![p] = NoRecord]
  /\ allowedCount' = [allowedCount EXCEPT ![u_id[p]] = @ + 1]
  /\ UNCHANGED <<profiles, month, u_id, nAdds, k0, creditsAdded, resetRuns>>

\* the steps of a session that calls the function directly
deduct_letter_allowance_select(p, u) ==
  DeductSelect(p, u) /\ UNCHANGED <<routeVars, rateVars>>

deduct_letter_allowance_update(p) ==
  DeductUpdate(p) /\ UNCHANGED <<routeVars, rateVars>>

(***************************************************************************)
(* add_letter_allowances(sub_id, plan_name): one UPDATE, or an exception.  *)
(***************************************************************************)
add_letter_allowances(sub_id, plan_name) ==
  /\ nAdds < MaxAdds
  /\ nAdds' = nAdds + 1
  /\ IF LettersToAdd(plan_name) = 0
       THEN UNCHANGED <<subscriptions, creditsAdded>>
       ELSE /\ subscriptions' =
                 [subscriptions EXCEPT ![sub_id] =
                    [@ EXCEPT !.remaining_letters = LettersToAdd(plan_name),
                              !.plan_type = Some(plan_name),
                              !.last_reset_at = month]]
            /\ creditsAdded' =
                 [creditsAdded EXCEPT ![sub_id] =
                    @ + Max(0, LettersToAdd(plan_name)
                                 - subscriptions[sub_id].remaining_letters)]
  /\ UNCHANGED <<profiles, month, callVars, k0, allowedCount, resetRuns,
                 routeVars, rateVars>>

(***************************************************************************)
(* reset_monthly_allowances(): one UPDATE over all rows that are due.      *)
(***************************************************************************)
ResetUpdate ==
  /\ subscriptions' =
       [s \in SubIds |->
          IF DueForReset(subscriptions[s])
            THEN [subscriptions[s] EXCEPT
                    !.remaining_letters = ResetLetters(subscriptions[s]),
                    !.last_reset_at = month]
            ELSE subscriptions[s]]
  /\ creditsAdded' =
       [s \in SubIds |->
          IF DueForReset(subscriptions[s])
            THEN creditsAdded[s]
                   + Max(0, ResetLetters(subscriptions[s])
                              - subscriptions[s].remaining_letters)
            ELSE creditsAdded[s]]

\* a call that finds rows to update
reset_monthly_allowances ==
  /\ \E s \in SubIds : DueForReset(subscriptions[s])
  /\ ResetUpdate
  /\ UNCHANGED <<profiles, month, callVars, nAdds, k0, allowedCount, resetRuns,
                 routeVars, rateVars>>

\* a run of the cron job, whether or not a row is due
reset_monthly_allowances_job ==
  /\ resetRuns < MaxResets
  /\ resetRuns' = resetRuns + 1
  /\ ResetUpdate
  /\ UNCHANGED <<profiles, month, callVars, nAdds, k0, allowedCount,
                 routeVars, rateVars>>

\* NOW() moves into the next calendar month
NextMonth ==
  /\ month < MaxMonth
  /\ month' = month + 1
  /\ resetRuns' = 0
  /\ UNCHANGED <<profiles, subscriptions, callVars, nAdds, k0, creditsAdded,
                 allowedCount, routeVars, rateVars>>

Init == InitGate

Next ==
  \/ \E p \in Procs, u \in Users : deduct_letter_allowance_select(p, u)
  \/ \E p \in Procs : deduct_letter_allowance_update(p)
  \/ \E s \in SubIds, plan_name \in PlanNames : add_letter_allowances(s, plan_name)
  \/ reset_monthly_allowances
  \/ NextMonth

Spec == Init /\ [][Next]_vars

\* the maintenance operations alone, called with every plan name
NextAdmin ==
  \/ \E s \in SubIds, plan_name \in AllPlanNames : add_letter_allowances(s, plan_name)
  \/ reset_monthly_allowances
  \/ NextMonth

SpecAdmin == Init /\ [][NextAdmin]_vars

\* the plans reset_monthly_allowances tells apart
ResetPlanNames == {"one_time", "monthly_standard", "monthly_premium"}

\* the sessions that spend letters while the job runs, and their user
ResetSessions == {1, 2}
ResetUser == "u1"

\* no super user: every allowed call spends a letter
InitReset == Init /\ \A u \in Users : ~IsSuperUser(u)

\* the cron job next to two calls of deduct_letter_allowance
NextReset ==
  \/ \E p \in ResetSessions : deduct_letter_allowance_select(p, ResetUser)
  \/ \E p \in ResetSessions : deduct_letter_allowance_update(p)
  \/ \E s \in SubIds, plan_name \in ResetPlanNames : add_letter_allowances(s, plan_name)
  \/ reset_monthly_allowances_job
  \/ NextMonth

SpecReset == InitReset /\ [][NextReset]_vars

(***************************************************************************)
(* Properties of the credit gate.                                          *)
(***************************************************************************)

\* the user's flag as stored, NULL counting as not set
FlagSet(u) == profiles[u].is_super_user = Some(TRUE)

\* the counter deduct_letter_allowance reads for user u
HasCounter(u) == ActiveSubscriptions(u) # {}
Counter(u) == subscriptions[LatestActiveSubscription(u)].remaining_letters

\* C1: no overdraw. For every user without the super-user flag, the number
\* of deduct_letter_allowance calls that returned TRUE never exceeds the
\* credits the user's active subscription held initially plus the credits
\* added to it since.
C1_NoOverdraw ==
  \A u \in Users :
    (~FlagSet(u) /\ HasCounter(u)) =>
      allowedCount[u] <= k0[LatestActiveSubscription(u)]
                           + creditsAdded[LatestActiveSubscription(u)]

\* C2: the remaining-credit counter of every subscription is >= 0 in every
\* reachable state.
C2_CounterNonNegative ==
  \A s \in SubIds : subscriptions[s].remaining_letters >= 0

\* C5: when exactly two calls were made for the same ordinary user whose
\* subscription held exactly 1 credit, and no credit was added, then once
\* both have returned exactly one returned TRUE, the other returned FALSE,
\* and the counter is 0.
C5_ContentionLossIsDenial ==
  \A p, q \in Procs :
    ( /\ p # q
      /\ pc[p] = "done" /\ pc[q] = "done"
      /\ u_id[p] = u_id[q]
      /\ ~FlagSet(u_id[p])
      /\ HasCounter(u_id[p])
      /\ k0[LatestActiveSubscription(u_id[p])] = 1
      /\ nAdds = 0
      /\ \A r \in Procs \ {p, q} : pc[r] = "idle" ) =>
    ( /\ {ret[p], ret[q]} = {Some(TRUE), Some(FALSE)}
      /\ Counter(u_id[p]) = 0 )

\* C6: super-user bypass. Every step of a deduct_letter_allowance call for a
\* user whose is_super_user flag is TRUE ends the call with TRUE and leaves
\* every subscription row as it was.
C6_SuperUserBypass ==
  [][\A p \in Procs :
       (pc'[p] # pc[p] /\ FlagSet(u_id'[p])) =>
         /\ pc'[p] = "done"
         /\ ret'[p] = Some(TRUE)
         /\ subscriptions' = subscriptions]_vars

\* a super user's call returned TRUE although the user's active
\* subscription holds no credit, and the row is as it was initially
C6_Witness ==
  \E p \in Procs :
    /\ pc[p] = "done"
    /\ FlagSet(u_id[p])
    /\ ret[p] = Some(TRUE)
    /\ HasCounter(u_id[p])
    /\ Counter(u_id[p]) = 0
    /\ subscriptions[LatestActiveSubscription(u_id[p])].remaining_letters
         = k0[LatestActiveSubscription(u_id[p])]

\* C7: idempotent denial. When a call for an ordinary user reads a
\* remaining-credit counter of 0 it returns FALSE, and the step changes no
\* table.
C7_IdempotentDenial ==
  [][\A p \in Procs :
       ( /\ pc[p] = "idle"
         /\ pc'[p] # "idle"
         /\ ~FlagSet(u_id'[p])
         /\ HasCounter(u_id'[p])
         /\ Counter(u_id'[p]) = 0 ) =>
       ( /\ pc'[p] = "done"
         /\ ret'[p] = Some(FALSE)
         /\ subscriptions' = subscriptions
         /\ profiles' = profiles
         /\ letters' = letters )]_vars

\* two calls for the same ordinary user were both denied at counter 0
C7_Witness ==
  \E p, q \in Procs :
    /\ p # q
    /\ pc[p] = "done" /\ pc[q] = "done"
    /\ u_id[p] = u_id[q]
    /\ ~FlagSet(u_id[p])
    /\ ret[p] = Some(FALSE) /\ ret[q] = Some(FALSE)
    /\ HasCounter(u_id[p])
    /\ Counter(u_id[p]) = 0

\* the step is the UPDATE of a deduct_letter_allowance call of session p
DeductStep(p) == pc[p] = "update" /\ pc'[p] = "done"

\* C17: a successful deduct_letter_allowance for an ordinary user verifies
\* credits_remaining > 0 and lowers both credits_remaining and
\* remaining_letters of the subscription by 1, so that the two columns are
\* equal after the deduction when they were equal before it.
C17_DeductsBothColumns ==
  [][\A p \in Procs :
       DeductStep(p) =>
         LET s == sub_record[p].id
         IN /\ subscriptions[s].credits_remaining > 0
            /\ subscriptions'[s].remaining_letters
                 = subscriptions[s].remaining_letters - 1
            /\ subscriptions'[s].credits_remaining
                 = subscriptions[s].credits_remaining - 1
            /\ (subscriptions[s].credits_remaining = subscriptions[s].remaining_letters
                  => subscriptions'[s].credits_remaining
                       = subscriptions'[s].remaining_letters)]_vars

\* subscription s is the most recent active subscription of user u
C19_MostRecentActive(s, u) ==
  /\ subscriptions[s].user_id = u
  /\ subscriptions[s].status = "active"
  /\ \A t \in SubIds :
       (subscriptions[t].user_id = u /\ subscriptions[t].status = "active")
         => subscriptions[t].created_at <= subscriptions[s].created_at

NoCallRunning == \A p \in Procs : pc[p] \in {"idle", "done"}

\* C22: check_letter_allowance and deduct_letter_allowance agree. With no
\* call under way and a user who is not a super user, check_letter_allowance
\* reports has_allowance = true exactly when a deduct_letter_allowance call
\* made next finds a letter to deduct and returns true.
C22_CheckAgreesWithDeduct ==
  [][\A p \in Procs, u \in Users :
       (NoCallRunning /\ ~IsSuperUser(u) /\ deduct_letter_allowance_select(p, u)) =>
         (check_letter_allowance(u).has_allowance <=> pc'[p] = "update")]_vars

\* C24: reset_monthly_allowances changes only subscriptions that are
\* active, have a monthly plan and were last reset in an earlier calendar
\* month: those get 4 letters (standard) or 8 (premium) and last_reset_at of
\* the run; a subscription with plan one_time or no plan, with a status
\* other than active, or reset in this month already keeps its row.
C24_ResetOnlyDueRows ==
  [][reset_monthly_allowances_job =>
       \A s \in SubIds :
         IF /\ subscriptions[s].status = "active"
            /\ subscriptions[s].plan_type \in {Some("monthly_standard"), Some("monthly_premium")}
            /\ subscriptions[s].last_reset_at < month
           THEN /\ subscriptions'[s].remaining_letters
                     = (IF subscriptions[s].plan_type = Some("monthly_standard")
                          THEN 4 ELSE 8)
                /\ subscriptions'[s].last_reset_at = month
                /\ \A f \in {"user_id", "status", "plan_type", "credits_remaining",
                              "created_at", "current_period_end"} :
                     subscriptions'[s][f] = subscriptions[s][f]
           ELSE subscriptions'[s] = subscriptions[s]]_vars

\* a run in a later month gave a premium subscription its 8 letters back
\* after a letter had been spent, and left a canceled subscription alone
C24_Witness ==
  \E s, t \in SubIds :
    /\ resetRuns > 0
    /\ subscriptions[s].plan_type = Some("monthly_premium")
    /\ subscriptions[s].status = "active"
    /\ subscriptions[s].last_reset_at = month
    /\ subscriptions[s].remaining_letters = 8
    /\ creditsAdded[s] > 8
    /\ subscriptions[t].status = "canceled"
    /\ subscriptions[t].last_reset_at < month

\* C25: reset_monthly_allowances is idempotent within a calendar month. A
\* run of the job in a month in which the job has run before, whatever
\* deduct_letter_allowance calls came in between, changes no counter, so
\* letters spent after the first run are not given back.
C25_ResetIdempotent ==
  [][(reset_monthly_allowances_job /\ resetRuns > 0) =>
       \A s \in SubIds :
         /\ subscriptions'[s].remaining_letters = subscriptions[s].remaining_letters
         /\ subscriptions'[s].credits_remaining = subscriptions[s].credits_remaining]_vars

\* the job ran twice in a month and a letter of a monthly subscription
\* that the job had reset in that month is spent
C25_Witness ==
  \E s \in SubIds :
    /\ month > 0
    /\ resetRuns = 2
    /\ subscriptions[s].plan_type = Some("monthly_standard")
    /\ subscriptions[s].status = "active"
    /\ subscriptions[s].last_reset_at = month
    /\ creditsAdded[s] > 4
    /\ subscriptions[s].remaining_letters = 3

\* the step is a call of add_letter_allowances
AddStep == nAdds' = nAdds + 1

\* the roles of anonymous and ordinary authenticated callers
C20_OrdinaryRoles == {"anon", "authenticated"}

\* C20: the remaining-credit counter of a subscription is changed by no
\* operation other than the decrement of deduct_letter_allowance and the
\* monthly reset, and no operation that an anonymous or ordinary
\* authenticated caller may execute raises a counter.
C20_OnlyDecrementAndReset ==
  [][\A s \in SubIds :
       subscriptions'[s].remaining_letters # subscriptions[s].remaining_letters =>
         /\ (\E p \in Procs : DeductStep(p)) \/ reset_monthly_allowances
         /\ subscriptions'[s].remaining_letters > subscriptions[s].remaining_letters =>
              /\ AddStep => Grants.add_letter_allowances \cap C20_OrdinaryRoles = {}
              /\ reset_monthly_allowances =>
                   Grants.reset_monthly_allowances \cap C20_OrdinaryRoles = {}]_vars

\* letters of a plan as the description of add_letter_allowances gives them
C18_DocumentedLetters(plan_name) ==
  CASE plan_name = "one_time" -> 1
    [] plan_name = "monthly_standard" -> 4
    [] plan_name = "monthly_premium" -> 12

\* letters of a plan with 8 letters for the premium plan
C18_AmendedLetters(plan_name) ==
  CASE plan_name = "one_time" -> 1
    [] plan_name = "monthly_standard" -> 4
    [] plan_name = "monthly_premium" -> 8

\* what a call add_letter_allowances(sub_id, plan_name) does when the premium
\* plan gives `premium` letters (12 or 8) and every plan name other than the
\* three is an error: the row gets the letters and the plan, no other row
\* changes; after an error no row has changed
C18_Effect(sub_id, plan_name, premium) ==
  IF plan_name \in {"one_time", "monthly_standard", "monthly_premium"}
    THEN /\ subscriptions'[sub_id].remaining_letters
              = (IF premium = 12 THEN C18_DocumentedLetters(plan_name)
                                 ELSE C18_AmendedLetters(plan_name))
         /\ subscriptions'[sub_id].plan_type = Some(plan_name)
         /\ \A t \in SubIds \ {sub_id} : subscriptions'[t] = subscriptions[t]
    ELSE subscriptions' = subscriptions

IsFirstLetter(u) == letters[u] = 0

\* what a request carries into the admission checks: whether the limiter of
\* the route refuses it, the user of its session if it has one, and the role
\* in that user's profile
RouteRoles == {"subscriber", "employee"}
RouteRequests ==
  [limited : BOOLEAN, user : {NULL} \cup {Some(u) : u \in Users}, role : RouteRoles]

\* the first check that refuses the request, in the order of the route: rate
\* limit (429), authentication (401), subscriber role (403)
Admission(request) ==
  IF request.limited THEN "RateLimited"
  ELSE IF request.user = NULL THEN "Unauthorized"
  ELSE IF request.role # "subscriber" THEN "Forbidden"
  ELSE "Admitted"

\* console.warn of the rate limiter: the one record a refusal leaves
AuditOnReject(outcome) == IF outcome = "RateLimited" THEN 1 ELSE 0

\* a request refused by an admission check returns at that check
generate_letter_reject(p, request) ==
  /\ gpc[p] = "idle"
  /\ Admission(request) # "Admitted"
  /\ gOutcome' = [gOutcome EXCEPT ![p] = Some(Admission(request))]
  /\ auditLog' = [auditLog EXCEPT ![p] = @ + AuditOnReject(Admission(request))]
  /\ gpc' = [gpc EXCEPT ![p] = "done"]
  /\ UNCHANGED <<dbVars, callVars, auxVars, letters, everGenerated, everDeleted,
                 generateTextCalled, rpcError, rateVars>>

\* the request of subscriber u has passed the admission checks and starts its
\* credit decision; a super user is allowed without counting
generate_letter_begin(p, u) ==
  /\ gpc[p] = "idle"
  /\ Admission([limited |-> FALSE, user |-> Some(u), role |-> "subscriber"]) = "Admitted"
  /\ u_id' = [u_id EXCEPT ![p] = u]
  /\ IF IsSuperUser(u)
       THEN /\ gOutcome' = [gOutcome EXCEPT ![p] = Some("SuperUser")]
            /\ gpc' = [gpc EXCEPT ![p] = "generate"]
       ELSE /\ gOutcome' = gOutcome
            /\ gpc' = [gpc EXCEPT ![p] = "count"]
  /\ UNCHANGED <<dbVars, pc, sub_record, ret, auxVars,
                 letters, everGenerated, everDeleted, requestVars, rateVars>>

\* the letters of the user are read and the free trial is decided
generate_letter_count(p) ==
  /\ gpc[p] = "count"
  /\ IF IsFirstLetter(u_id[p])
       THEN /\ gOutcome' = [gOutcome EXCEPT ![p] = Some("FreeTrial")]
            /\ gpc' = [gpc EXCEPT ![p] = "generate"]
       ELSE /\ gOutcome' = gOutcome
            /\ gpc' = [gpc EXCEPT ![p] = "deduct"]
  /\ UNCHANGED <<dbVars, callVars, auxVars, letters, everGenerated, everDeleted,
                 requestVars, rateVars>>

\* where a request goes after a refusal of deduct_letter_allowance, letting
\* it through to generation
StageAfterDenial_failOpen == "generate"

\* where a request goes after a refusal of deduct_letter_allowance: it
\* returns 'No letter credits remaining'
StageAfterDenial == "done"

\* determination of the request once deduct_letter_allowance has returned
AfterDeduct(p) ==
  IF pc'[p] # "done"
    THEN UNCHANGED <<gpc, gOutcome>>
    ELSE IF ret'[p] = Some(TRUE)
      THEN /\ gOutcome' = [gOutcome EXCEPT ![p] = Some("SubscriptionCredit")]
           /\ gpc' = [gpc EXCEPT ![p] = "generate"]
      ELSE /\ gOutcome' = [gOutcome EXCEPT ![p] = Some("Denied")]
           /\ gpc' = [gpc EXCEPT ![p] = StageAfterDenial]

\* one statement of the request's deduct_letter_allowance call
generate_letter_deduct(p) ==
  /\ gpc[p] = "deduct"
  /\ \/ DeductSelect(p, u_id[p])
     \/ DeductUpdate(p)
  /\ AfterDeduct(p)
  /\ UNCHANGED <<letters, everGenerated, everDeleted, requestVars, rateVars>>

\* supabase.rpc('deduct_letter_allowance') fails before the function has run:
\* it resolves to {data: null, error}, the caller reads data only, and
\* `if (!success)` answers as it does to a refusal
generate_letter_deduct_fails(p) ==
  /\ gpc[p] = "deduct"
  /\ pc[p] = "idle"
  /\ rpcError' = [rpcError EXCEPT ![p] = TRUE]
  /\ gOutcome' = [gOutcome EXCEPT ![p] = Some("Denied")]
  /\ gpc' = [gpc EXCEPT ![p] = StageAfterDenial]
  /\ UNCHANGED <<dbVars, callVars, auxVars, letters, everGenerated, everDeleted,
                 generateTextCalled, auditLog, rateVars>>

\* generateText drafts the letter
generate_letter_generate(p) ==
  /\ gpc[p] = "generate"
  /\ generateTextCalled' = [generateTextCalled EXCEPT ![p] = TRUE]
  /\ gpc' = [gpc EXCEPT ![p] = "insert"]
  /\ UNCHANGED <<dbVars, callVars, auxVars, letters, gOutcome, everGenerated,
                 everDeleted, rpcError, auditLog, rateVars>>

\* generateText throws, its text is rejected or the letter cannot be stored:
\* the catch block logs the failure with log_letter_audit and rethrows;
\* nothing is given back to the subscription
generate_letter_fails(p) ==
  /\ gpc[p] \in {"generate", "insert"}
  /\ generateTextCalled' = [generateTextCalled EXCEPT ![p] = TRUE]
  /\ auditLog' = [auditLog EXCEPT ![p] = @ + 1]
  /\ gpc' = [gpc EXCEPT ![p] = "failed"]
  /\ UNCHANGED <<dbVars, callVars, auxVars, letters, gOutcome, everGenerated,
                 everDeleted, rpcError, rateVars>>

\* the generated letter is stored and log_letter_audit records it
generate_letter_insert(p) ==
  /\ gpc[p] = "insert"
  /\ letters' = [letters EXCEPT ![u_id[p]] = @ + 1]
  /\ everGenerated' = [everGenerated EXCEPT ![u_id[p]] = TRUE]
  /\ auditLog' = [auditLog EXCEPT ![p] = @ + 1]
  /\ gpc' = [gpc EXCEPT ![p] = "done"]
  /\ UNCHANGED <<dbVars, callVars, auxVars, gOutcome, everDeleted,
                 generateTextCalled, rpcError, rateVars>>

\* all stored letters of user u are deleted
delete_letters(u) ==
  /\ letters[u] > 0
  /\ letters' = [letters EXCEPT ![u] = 0]
  /\ everDeleted' = [everDeleted EXCEPT ![u] = TRUE]
  /\ UNCHANGED <<dbVars, callVars, auxVars, gpc, gOutcome, everGenerated,
                 requestVars, rateVars>>

InitGenerate ==
  /\ InitDb
  /\ InitCalls
  /\ InitRoute
  /\ InitRate

NextGenerate ==
  \/ \E p \in Procs, request \in RouteRequests : generate_letter_reject(p, request)
  \/ \E p \in Procs, u \in Users : generate_letter_begin(p, u)
  \/ \E p \in Procs : generate_letter_count(p)
  \/ \E p \in Procs : generate_letter_deduct(p)
  \/ \E p \in Procs : generate_letter_deduct_fails(p)
  \/ \E p \in Procs : generate_letter_generate(p)
  \/ \E p \in Procs : generate_letter_fails(p)
  \/ \E p \in Procs : generate_letter_insert(p)
  \/ \E u \in Users : delete_letters(u)

SpecGenerate == InitGenerate /\ [][NextGenerate]_vars

\* the requests of the route while no letter is deleted
NextPipeline ==
  \/ \E p \in Procs, request \in RouteRequests : generate_letter_reject(p, request)
  \/ \E p \in Procs, u \in Users : generate_letter_begin(p, u)
  \/ \E p \in Procs : generate_letter_count(p)
  \/ \E p \in Procs : generate_letter_deduct(p)
  \/ \E p \in Procs : generate_letter_deduct_fails(p)
  \/ \E p \in Procs : generate_letter_generate(p)
  \/ \E p \in Procs : generate_letter_fails(p)
  \/ \E p \in Procs : generate_letter_insert(p)

SpecPipeline == InitGenerate /\ [][NextPipeline]_vars

(***************************************************************************)
(* Properties of the free trial.                                           *)
(***************************************************************************)

FreeTrialRequests(u) ==
  {p \in Procs : u_id[p] = u /\ gOutcome[p] = Some("FreeTrial")}

\* C3: single free trial. While no letter of a user has been deleted, at
\* most one generation request of that user is granted as the free trial.
C3_SingleFreeTrial ==
  \A u \in Users :
    ~everDeleted[u] => Cardinality(FreeTrialRequests(u)) <= 1

\* C4: deletion does not restore the trial. A request that decides its
\* free trial after a letter of its user has been stored is not granted
\* the free trial.
C4_DeletionDoesNotRestoreTrial ==
  [][\A p \in Procs :
       (gpc[p] = "count" /\ gpc'[p] # "count" /\ everGenerated[u_id[p]]) =>
         gOutcome'[p] # Some("FreeTrial")]_vars

(***************************************************************************)
(* Properties of the request pipeline.                                     *)
(***************************************************************************)

\* the determinations with which a request has passed the credit gate
AllowedOutcomes ==
  {Some("FreeTrial"), Some("SubscriptionCredit"), Some("SuperUser")}

C15_NamedOutcomes == AllowedOutcomes \cup {Some("RateLimited"), Some("Denied")}

\* C15: every generation attempt ends in exactly one terminal outcome and
\* exactly one audit record is written for it, whatever the outcome: allowed
\* and generated, refused by the rate limit, refused for lack of credit,
\* error, and a super-user grant.
C15_OneAuditPerOutcome ==
  \A p \in Procs :
    gpc[p] \in {"done", "failed"} =>
      /\ gOutcome[p] # NULL
      /\ gOutcome[p] \in C15_NamedOutcomes => auditLog[p] = 1

\* C16: when the storage operation behind the credit decision fails, the
\* attempt ends in an error outcome that differs from a refusal for lack of
\* credit and from every allowed outcome, and nothing is generated for it.
C16_StorageFailureIsError ==
  \A p \in Procs :
    (rpcError[p] /\ gpc[p] = "done") =>
      /\ gOutcome[p] \notin AllowedOutcomes \cup {Some("Denied")}
      /\ ~generateTextCalled[p]

\* the sum of f over the set S
RECURSIVE SumOver(_, _)
SumOver(f, S) ==
  IF S = {} THEN 0
  ELSE LET x == CHOOSE y \in S : TRUE IN f[x] + SumOver(f, S \ {x})

\* letters taken from the subscriptions since the initial state
C23_LettersConsumed ==
  SumOver([s \in SubIds |-> k0[s] + creditsAdded[s] - subscriptions[s].remaining_letters],
          SubIds)

\* requests that were allowed on a subscription credit and stored a letter
C23_CreditedGenerations ==
  {p \in Procs : gOutcome[p] = Some("SubscriptionCredit") /\ gpc[p] = "done"}

\* C23: a credit is consumed only by a generation that succeeds. When every
\* request has ended, the letters taken from the subscriptions are as many as
\* the requests that were allowed on a credit and stored their letter: a
\* request whose generation or storing failed has left the counter at the
\* value it had before the attempt.
C23_CreditOnlyOnSuccess ==
  (\A p \in Procs : gpc[p] \in {"idle", "done", "failed"}) =>
    C23_LettersConsumed = Cardinality(C23_CreditedGenerations)

(***************************************************************************)
(* isRateLimited(request)                                                  *)
(***************************************************************************)
gateVars == <<dbVars, callVars, auxVars>>

isRateLimited(source, path) ==
  /\ nRequests < MaxRequests
  /\ nRequests' = nRequests + 1
  /\ IF ~IsApiPath(path)
       THEN /\ result' = Some([clientId |-> getClientId(source), path |-> path,
                               limited |-> FALSE,
                               resetTime |-> NULL, remaining |-> NULL])
            /\ UNCHANGED <<rateLimitStore, timers, endpointCount, endpointAllowed>>
       ELSE LET clientId == getClientId(source)
                maxRequests == MaxRequestsFor(path)
                fresh == WindowExpired(rateLimitStore[clientId])
                entry == GetOrCreate(rateLimitStore[clientId])
                count == entry.count + 1
            IN /\ rateLimitStore' =
                    [rateLimitStore EXCEPT ![clientId] =
                       Some([count |-> count, resetTime |-> entry.resetTime])]
               /\ timers' = timers \cup
                    {[clientId |-> clientId, now |-> now,
                      fireAt |-> now + CleanupDelay]}
               /\ result' = Some([clientId |-> clientId, path |-> path,
                                  limited |-> Limited(count, maxRequests),
                                  resetTime |-> Some(entry.resetTime),
                                  remaining |-> Some(Max(0, maxRequests - count))])
               /\ endpointCount' =
                    [endpointCount EXCEPT ![clientId] =
                       [p \in ApiPaths |->
                          (IF fresh THEN 0 ELSE endpointCount[clientId][p])
                            + (IF p = path THEN 1 ELSE 0)]]
               /\ endpointAllowed' =
                    [endpointAllowed EXCEPT ![clientId] =
                       [p \in ApiPaths |->
                          (IF fresh THEN 0 ELSE endpointAllowed[clientId][p])
                            + (IF p = path /\ ~Limited(count, maxRequests)
                                 THEN 1 ELSE 0)]]
  /\ UNCHANGED <<gateVars, routeVars, now, admin_session, nTicks>>

\* the check of a request that reaches the limiter directly
isRateLimited_request(source, path) ==
  isRateLimited(source, path) /\ UNCHANGED response

\* the callback deletes whatever entry it finds
Stale_always(current, timer) == current # NULL

\* if (current && current.resetTime <= now), with the now of the request
\* that scheduled the callback
Stale(current, timer) == current # NULL /\ current[1].resetTime <= timer.now

\* the cleanup callback scheduled by isRateLimited runs
cleanup(timer) ==
  /\ timer \in timers
  /\ now >= timer.fireAt
  /\ timers' = timers \ {timer}
  /\ LET current == rateLimitStore[timer.clientId]
     IN IF Stale(current, timer)
          THEN rateLimitStore' = [rateLimitStore EXCEPT ![timer.clientId] = NULL]
          ELSE UNCHANGED rateLimitStore
  /\ UNCHANGED <<gateVars, routeVars, now, result, response, admin_session,
                 endpointCount, endpointAllowed, nRequests, nTicks>>

\* instants at which the limiter's behaviour can change
NextInstants ==
  {now + 1}
    \cup {rateLimitStore[c][1].resetTime : c \in {d \in ClientIds : rateLimitStore[d] # NULL}}
    \cup {rateLimitStore[c][1].resetTime + 1 : c \in {d \in ClientIds : rateLimitStore[d] # NULL}}
    \cup {timer.fireAt : timer \in timers}
    \cup (IF admin_session = NULL THEN {}
          ELSE {admin_session[1].lastActivity + 1800000,
                admin_session[1].lastActivity + 1800001})

\* time passes
Tick(t) ==
  /\ nTicks < MaxTicks
  /\ t \in NextInstants
  /\ t > now
  /\ now' = t
  /\ nTicks' = nTicks + 1
  /\ UNCHANGED <<gateVars, routeVars, rateLimitStore, timers, result, response,
                 admin_session, endpointCount, endpointAllowed, nRequests>>

InitLimiter ==
  /\ InitRate
  /\ profiles = [u \in Users |-> [is_super_user |-> Some(FALSE)]]
  /\ subscriptions = [s \in SubIds |-> DefaultRow(s)]
  /\ month = 0
  /\ InitCalls
  /\ InitRequests
  /\ letters = [u \in Users |-> 0]
  /\ gpc = [p \in Procs |-> "idle"]
  /\ gOutcome = [p \in Procs |-> NULL]
  /\ everGenerated = [u \in Users |-> FALSE]
  /\ everDeleted = [u \in Users |-> FALSE]

\* the requests of one client, with and without a proxy in front of it
LimiterSources == {source \in Sources : getClientId(source) = <<"ip", "10.0.0.1">>}

NextLimiter ==
  \/ \E source \in LimiterSources, path \in Paths : isRateLimited_request(source, path)
  \/ \E timer \in timers : cleanup(timer)
  \/ \E t \in NextInstants : Tick(t)

SpecLimiter == InitLimiter /\ [][NextLimiter]_vars

\* the event loop runs every callback that is due, and time passes
SpecCleanup ==
  /\ InitLimiter
  /\ [][NextLimiter]_vars
  /\ WF_vars(\E timer \in timers : cleanup(timer))
  /\ WF_vars(\E t \in NextInstants : Tick(t))

(***************************************************************************)
(* Properties of the rate limiter.                                         *)
(***************************************************************************)

\* this step is a check of a request of client c to an /api/ path
ApiCheck(c) ==
  /\ nRequests' = nRequests + 1
  /\ result'[1].clientId = c
  /\ IsApiPath(result'[1].path)

\* C8: window rollover. When the counter of a client has reached the limit
\* of the requested endpoint, a request at any time up to and including
\* resetTime is denied within the same window, and a request after
\* resetTime is allowed and starts a window with count 1 that ends
\* RATE_LIMIT_WINDOW after the request.
C8_WindowRollover ==
  [][\A c \in ClientIds :
       ( /\ ApiCheck(c)
         /\ rateLimitStore[c] # NULL
         /\ rateLimitStore[c][1].count >= RATE_LIMIT_MAX_REQUESTS[result'[1].path] ) =>
       IF now <= rateLimitStore[c][1].resetTime
         THEN /\ result'[1].limited
              /\ rateLimitStore'[c][1].resetTime = rateLimitStore[c][1].resetTime
              /\ rateLimitStore'[c][1].count = rateLimitStore[c][1].count + 1
         ELSE /\ ~result'[1].limited
              /\ rateLimitStore'[c] =
                   Some([count |-> 1, resetTime |-> now + 900000])]_vars

\* the request after the limit was reached is issued exactly at resetTime
\* and is denied
C8_Witness ==
  /\ result # NULL
  /\ IsApiPath(result[1].path)
  /\ result[1].limited
  /\ rateLimitStore[result[1].clientId] # NULL
  /\ rateLimitStore[result[1].clientId][1].resetTime = now
  /\ rateLimitStore[result[1].clientId][1].count
       = RATE_LIMIT_MAX_REQUESTS[result[1].path] + 1

\* remaining of the 1st .. 6th request of a window under the policy of
\* /api/generate-letter
C9_Remaining == <<4, 3, 2, 1, 0, 0>>

\* the n-th request of the client's window is a request to
\* /api/generate-letter, and so were all requests of the window before it
C9_Scenario(c, n) ==
  /\ ApiCheck(c)
  /\ result'[1].path = GenerateLetterPath
  /\ rateLimitStore'[c][1].count = n
  /\ endpointCount'[c][GenerateLetterPath] = n

C9_Results(c, n) ==
  /\ result'[1].limited = (n = 6)
  /\ result'[1].remaining = Some(C9_Remaining[n])
  /\ result'[1].resetTime = Some(rateLimitStore'[c][1].resetTime)
  /\ n = 1 => rateLimitStore'[c][1].resetTime = now + 900000
  /\ n > 1 => rateLimitStore'[c][1].resetTime = rateLimitStore[c][1].resetTime

\* C9 as stated: the six requests are allowed with remaining 4,3,2,1,0 and
\* then denied with remaining 0, all with the same resetTime, and that
\* resetTime is later than the time of the request.
C9_SixRequests_Original ==
  [][\A c \in ClientIds : \A n \in 1..6 :
       C9_Scenario(c, n) =>
         /\ C9_Results(c, n)
         /\ rateLimitStore'[c][1].resetTime > now]_vars

\* C9 amended: as above, but the resetTime is not earlier than the time of
\* the request; the two are equal for a request issued exactly at resetTime.
C9_SixRequests ==
  [][\A c \in ClientIds : \A n \in 1..6 :
       C9_Scenario(c, n) =>
         /\ C9_Results(c, n)
         /\ rateLimitStore'[c][1].resetTime >= now]_vars

\* the sixth request to /api/generate-letter of a window was denied
C9_Witness ==
  /\ result # NULL
  /\ result[1].path = GenerateLetterPath
  /\ result[1].limited
  /\ result[1].remaining = Some(0)
  /\ rateLimitStore[result[1].clientId] # NULL
  /\ rateLimitStore[result[1].clientId][1].count = 6
  /\ endpointCount[result[1].clientId][GenerateLetterPath] = 6

\* C10: one counter per (client, endpoint). What the last check returned
\* for an /api/ path depends only on the client's requests to that same
\* path in the window: the path's limit minus their number remains, and the
\* request is denied when their number exceeds the limit.
C10_CounterPerEndpoint ==
  (result # NULL /\ IsApiPath(result[1].path)) =>
    LET n == endpointCount[result[1].clientId][result[1].path]
        maxRequests == RATE_LIMIT_MAX_REQUESTS[result[1].path]
    IN /\ result[1].remaining = Some(Max(0, maxRequests - n))
       /\ result[1].limited = (n > maxRequests)

\* C11: for every client, every endpoint and every window, at most the
\* endpoint's maximum of that endpoint's requests are allowed between the
\* creation of the client's counter and its resetTime, whatever requests to
\* other endpoints and clock advances come in between.
C11_AtMostMaxAllowed ==
  \A c \in ClientIds : \A path \in ApiPaths :
    endpointAllowed[c][path] <= RATE_LIMIT_MAX_REQUESTS[path]

\* an endpoint's full allowance was granted in one window and a further
\* request to it, issued exactly at resetTime, was denied
C11_Witness ==
  /\ result # NULL
  /\ IsApiPath(result[1].path)
  /\ result[1].limited
  /\ endpointAllowed[result[1].clientId][result[1].path]
       = RATE_LIMIT_MAX_REQUESTS[result[1].path]
  /\ endpointCount[result[1].clientId][result[1].path]
       = RATE_LIMIT_MAX_REQUESTS[result[1].path] + 1
  /\ rateLimitStore[result[1].clientId] # NULL
  /\ rateLimitStore[result[1].clientId][1].resetTime = now

\* C12: every check of a request to an /api/ path increments the client's
\* counter by exactly one, whether the request is allowed or denied: while
\* the window is open the count goes up by one and resetTime stays as it
\* is, also when the counter is already over the limit; otherwise the
\* request is the first of a new window.
C12_CountedOnce ==
  [][\A c \in ClientIds :
       ApiCheck(c) =>
         IF rateLimitStore[c] # NULL /\ now <= rateLimitStore[c][1].resetTime
           THEN /\ rateLimitStore'[c][1].count = rateLimitStore[c][1].count + 1
                /\ rateLimitStore'[c][1].resetTime = rateLimitStore[c][1].resetTime
           ELSE rateLimitStore'[c][1].count = 1]_vars

\* a request made while the counter was already over the limit was counted
\* in a window that was opened at an earlier time
C12_Witness ==
  /\ result # NULL
  /\ IsApiPath(result[1].path)
  /\ result[1].limited
  /\ rateLimitStore[result[1].clientId] # NULL
  /\ rateLimitStore[result[1].clientId][1].count
       >= RATE_LIMIT_MAX_REQUESTS[result[1].path] + 2
  /\ rateLimitStore[result[1].clientId][1].resetTime < now + RATE_LIMIT_WINDOW

\* the counter of client c is stored and its window has expired
Expired(c) == rateLimitStore[c] # NULL /\ now > rateLimitStore[c][1].resetTime

\* the bounded clock has stopped while a callback is still pending
ClockStopped == nTicks = MaxTicks /\ timers # {}

\* C26: eventual cleanup. Every counter whose window has expired is
\* eventually removed from the store or replaced by a fresh counter, also
\* when its client sends no further request (unless the bounded clock has
\* stopped before a pending callback).
C26_EventualCleanup ==
  \A c \in ClientIds : Expired(c) ~> (~Expired(c) \/ ClockStopped)

\* C27: the cleanup callback never deletes a counter whose window is still
\* open at the moment the callback runs, whatever requests and callbacks of
\* the same client came before.
C27_CleanupKeepsOpenWindows ==
  [][\A timer \in timers :
       (cleanup(timer) /\ rateLimitStore'[timer.clientId] = NULL
          /\ rateLimitStore[timer.clientId] # NULL) =>
         now > rateLimitStore[timer.clientId][1].resetTime]_vars

\* a callback has deleted the counter of a client that had sent requests
C27_Witness ==
  \E c \in ClientIds :
    /\ rateLimitStore[c] = NULL
    /\ \E path \in ApiPaths : endpointCount[c][path] > 0

(***************************************************************************)
(* proxy(request): the answer of the proxy to one request.  A response is  *)
(* its status, whether updateSession was called for the request and        *)
(* whether the proxy logged a rate-limit violation for it.                 *)
(***************************************************************************)
Methods == {"POST", "OPTIONS"}

\* the segments of the modelled paths that contain a '.'
DottedSegments == {"favicon.ico", "export.csv", "report.pdf"}

ProxyPaths == Paths \cup {<<"favicon.ico">>, <<"api", "letters", "report.pdf">>}

\* pathname.startsWith('/api')
StartsWithApi(path) == Len(path) >= 1 /\ path[1] = "api"

\* pathname.startsWith('/_next/') || pathname.startsWith('/favicon.') ||
\* pathname.startsWith('/public/') || pathname.includes('.')
IsStaticPath(path) ==
  \/ Len(path) >= 2 /\ path[1] \in {"_next", "public"}
  \/ \E i \in 1..Len(path) : path[i] \in DottedSegments

\* new NextResponse(null, { status: 204, ... })
PreflightResponse == [status |-> "204", updatedSession |-> FALSE, logged |-> FALSE]

\* NextResponse.next()
NextResponse == [status |-> "next", updatedSession |-> FALSE, logged |-> FALSE]

\* the session is refreshed before the request is turned away
RateLimitedResponse_sessionFirst ==
  [status |-> "429", updatedSession |-> TRUE, logged |-> TRUE]

\* NextResponse.json({ error: 'Too many requests. ...' }, { status: 429 }),
\* console.warn('[RateLimit] Request blocked:', ...)
RateLimitedResponse == [status |-> "429", updatedSession |-> FALSE, logged |-> TRUE]

\* await updateSession(request)
SessionResponse == [status |-> "updateSession", updatedSession |-> TRUE, logged |-> FALSE]

proxy(method, source, path) ==
  IF method = "OPTIONS" /\ StartsWithApi(path)
    THEN /\ nRequests < MaxRequests
         /\ nRequests' = nRequests + 1
         /\ response' = Some(PreflightResponse)
         /\ UNCHANGED <<gateVars, routeVars, rateLimitStore, now, timers, result,
                        admin_session, endpointCount, endpointAllowed, nTicks>>
    ELSE IF IsStaticPath(path)
      THEN /\ nRequests < MaxRequests
           /\ nRequests' = nRequests + 1
           /\ response' = Some(NextResponse)
           /\ UNCHANGED <<gateVars, routeVars, rateLimitStore, now, timers, result,
                          admin_session, endpointCount, endpointAllowed, nTicks>>
      ELSE IF IsApiPath(path)
        THEN /\ isRateLimited(source, path)
             /\ response' = IF result'[1].limited
                               THEN Some(RateLimitedResponse)
                               ELSE Some(SessionResponse)
        ELSE /\ nRequests < MaxRequests
             /\ nRequests' = nRequests + 1
             /\ response' = Some(SessionResponse)
             /\ UNCHANGED <<gateVars, routeVars, rateLimitStore, now, timers, result,
                            admin_session, endpointCount, endpointAllowed, nTicks>>

\* requests that come without a proxy in front: anonymous, with a bearer
\* token, with basic credentials
ProxySources == {source \in Sources : source.forwarded = NULL}

InitProxy == InitLimiter

NextProxy ==
  \E method \in Methods, source \in ProxySources, path \in ProxyPaths :
    proxy(method, source, path)

\* requests that reach the proxy at one instant
SpecProxy == InitProxy /\ [][NextProxy]_vars

(***************************************************************************)
(* Properties of the proxy.                                                *)
(***************************************************************************)

\* C14: the rate limiter runs before authentication and before the credit
\* gate. Whether proxy answers 429 is decided by the client's counter
\* alone, and a request answered with 429 changes no subscription, no
\* stored letter and no profile, and updateSession is not called for it.
C14_RateLimitFirst ==
  [][(nRequests' = nRequests + 1 /\ response'[1].status = "429") =>
       /\ result'[1].limited
       /\ rateLimitStore'[result'[1].clientId][1].count
            > RATE_LIMIT_MAX_REQUESTS[result'[1].path]
       /\ ~response'[1].updatedSession
       /\ subscriptions' = subscriptions
       /\ profiles' = profiles
       /\ letters' = letters
       /\ everGenerated' = everGenerated]_vars

\* a request that carries a bearer token was answered with 429
C14_Witness ==
  /\ response # NULL
  /\ response[1].status = "429"
  /\ result # NULL
  /\ result[1].clientId[1] = "user"
  /\ result[1].limited

\* C28: rate limiting applies to API routes. Every request whose path
\* starts with /api/, other than a CORS preflight, is passed through
\* isRateLimited and counted before proxy returns a response for it.
C28_ApiRoutesAreLimited ==
  [][\A source \in ProxySources, path \in ProxyPaths :
       (proxy("POST", source, path) /\ IsApiPath(path)) =>
         LET c == getClientId(source)
         IN /\ result' # NULL
            /\ result'[1].clientId = c
            /\ result'[1].path = path
            /\ rateLimitStore'[c] # NULL
            /\ rateLimitStore'[c][1].count =
                 (IF WindowExpired(rateLimitStore[c])
                    THEN 1 ELSE rateLimitStore[c][1].count + 1)]_vars

\* C29: the rate-limit key of a request is the authenticated user id or the
\* source IP only. All modelled requests come from one source address, so
\* whatever Authorization or X-Forwarded-For headers they carry, the
\* requests to an endpoint that are let through in one window are at most
\* the endpoint's maximum.
C29_HeadersGiveNoExtraRequests ==
  \A path \in ApiPaths :
    SumOver([c \in ClientIds |-> endpointAllowed[c][path]], ClientIds)
      <= RATE_LIMIT_MAX_REQUESTS[path]

(***************************************************************************)
(* proxy(request) of the variant that carries its own auth checks: after   *)
(* the rate limiter come the admin portal session, the /admin routes and   *)
(* the protected routes.                                                   *)
(***************************************************************************)

\* 30 * 60 * 1000
SESSION_TIMEOUT == 1800000

\* users that can hold an admin_session cookie, and sessions of Supabase Auth
SessionUsers == {"a1", "u1"}

\* profiles.role of a user
ProfileRole(userId) == IF userId = "a1" THEN "admin" ELSE "subscriber"

AuthProxyPaths ==
  {<<"secure-admin-gateway", "dashboard">>,
   <<"secure-admin-gateway", "login">>,
   <<"secure-admin-gateway", "export.csv">>,
   <<"admin">>,
   <<"dashboard">>,
   <<"api", "letters", "1">>}

\* pathname.startsWith('/secure-admin-gateway')
IsAdminGatewayPath(path) == Len(path) >= 1 /\ path[1] = "secure-admin-gateway"

\* pathname.includes('/login')
IncludesLogin(path) == \E i \in 1..Len(path) : path[i] = "login"

\* pathname.startsWith('/admin')
IsAdminPath(path) == Len(path) >= 1 /\ path[1] = "admin"

\* pathname.startsWith('/dashboard')
IsDashboardPath(path) == Len(path) >= 1 /\ path[1] = "dashboard"

\* pathname.startsWith('/api/letters/')
IsApiLettersPath(path) == Len(path) >= 3 /\ path[1] = "api" /\ path[2] = "letters"

\* now - session.lastActivity > 30 * 60 * 1000
SessionExpired(lastActivity) == now - lastActivity > SESSION_TIMEOUT

\* NextResponse.redirect('/secure-admin-gateway/login?redirect=...')
RedirectAdminLogin ==
  [status |-> "redirect:/secure-admin-gateway/login", updatedSession |-> FALSE,
   logged |-> FALSE]

\* the same redirect with expired=true
RedirectExpired ==
  [status |-> "redirect:/secure-admin-gateway/login?expired=true",
   updatedSession |-> FALSE, logged |-> FALSE]

\* NextResponse.redirect('/auth/login?redirect=...')
RedirectAuthLogin ==
  [status |-> "redirect:/auth/login", updatedSession |-> FALSE, logged |-> FALSE]

\* NextResponse.redirect('/dashboard?error=admin-access-required')
RedirectDashboard ==
  [status |-> "redirect:/dashboard?error=admin-access-required",
   updatedSession |-> FALSE, logged |-> FALSE]

\* NextResponse.json({ error: 'Unauthorized' }, { status: 401 })
UnauthorizedResponse == [status |-> "401", updatedSession |-> FALSE, logged |-> FALSE]

\* proxy returns response r without a call of isRateLimited
Respond(r) ==
  /\ nRequests < MaxRequests
  /\ nRequests' = nRequests + 1
  /\ response' = Some(r)
  /\ UNCHANGED <<gateVars, routeVars, rateLimitStore, now, timers, result,
                 endpointCount, endpointAllowed, nTicks>>

\* the admin login stores the cookie admin_session
admin_login(userId) ==
  /\ admin_session = NULL
  /\ admin_session' = Some([userId |-> userId, lastActivity |-> now])
  /\ UNCHANGED <<gateVars, routeVars, rateLimitStore, now, timers, result, response,
                 endpointCount, endpointAllowed, nRequests, nTicks>>

\* the block `Admin auth middleware`; sent tells whether the request
\* carries the stored cookie or a value that JSON.parse rejects
AdminGateway(sent) ==
  IF admin_session = NULL
    THEN Respond(RedirectAdminLogin) /\ UNCHANGED admin_session
    ELSE IF sent = "malformed"
      THEN Respond(RedirectAdminLogin) /\ UNCHANGED admin_session
      ELSE IF SessionExpired(admin_session[1].lastActivity)
        THEN Respond(RedirectExpired) /\ admin_session' = NULL
        ELSE IF ProfileRole(admin_session[1].userId) # "admin"
          THEN Respond(RedirectAdminLogin) /\ UNCHANGED admin_session
          ELSE /\ Respond(SessionResponse)
               /\ admin_session' = Some([admin_session[1] EXCEPT !.lastActivity = now])

\* the blocks for /admin and for the protected routes; session is what
\* supabase.auth.getSession() returns
ProtectedRoutes(path, session) ==
  IF IsAdminPath(path) /\ session = NULL
    THEN Respond(RedirectAuthLogin)
    ELSE IF IsAdminPath(path) /\ ProfileRole(session[1]) # "admin"
      THEN Respond(RedirectDashboard)
      ELSE IF (IsDashboardPath(path) \/ IsApiLettersPath(path)) /\ session = NULL
        THEN IF IsDashboardPath(path)
               THEN Respond(RedirectAuthLogin)
               ELSE Respond(UnauthorizedResponse)
        ELSE Respond(SessionResponse)

proxyWithAuth(method, source, path, session, sent) ==
  IF method = "OPTIONS" /\ StartsWithApi(path)
    THEN Respond(PreflightResponse) /\ UNCHANGED admin_session
    ELSE IF IsStaticPath(path)
      THEN Respond(SessionResponse) /\ UNCHANGED admin_session
      ELSE IF IsApiPath(path)
        THEN /\ isRateLimited(source, path)
             /\ response' = IF result'[1].limited
                               THEN Some(RateLimitedResponse)
                               ELSE Some(SessionResponse)
        ELSE IF IsAdminGatewayPath(path) /\ ~IncludesLogin(path)
          THEN AdminGateway(sent)
          ELSE ProtectedRoutes(path, session) /\ UNCHANGED admin_session

\* the requests of one anonymous client
AuthProxySources == {source \in ProxySources : source.authorization = NULL}

SupabaseSessions == {NULL} \cup {Some(u) : u \in SessionUsers}

InitAuthProxy == InitLimiter

NextAuthProxy ==
  \/ \E userId \in SessionUsers : admin_login(userId)
  \/ \E method \in Methods, source \in AuthProxySources, path \in AuthProxyPaths,
        session \in SupabaseSessions, sent \in {"stored", "malformed"} :
       proxyWithAuth(method, source, path, session, sent)
  \/ \E t \in NextInstants : Tick(t)

SpecAuthProxy == InitAuthProxy /\ [][NextAuthProxy]_vars

(***************************************************************************)
(* Properties of the proxy with auth checks.                               *)
(***************************************************************************)

\* the request goes to the admin portal, not to its login page, and carries
\* the stored cookie
C21_GuardedRequest(path, sent) ==
  /\ IsAdminGatewayPath(path)
  /\ ~IncludesLogin(path)
  /\ admin_session # NULL
  /\ sent = "stored"

\* C21: admin portal sessions expire after 30 minutes of inactivity. A
\* request to the admin portal whose cookie has a lastActivity more than 30
\* minutes old is never passed through: it is redirected to the login page
\* with expired=true and the cookie is deleted; and every such request that
\* is passed through sets lastActivity to the current time.
C21_SessionExpires ==
  [][\A method \in Methods, source \in AuthProxySources, path \in AuthProxyPaths,
        session \in SupabaseSessions, sent \in {"stored", "malformed"} :
       (proxyWithAuth(method, source, path, session, sent)
          /\ C21_GuardedRequest(path, sent)) =>
         IF now - admin_session[1].lastActivity > 1800000
           THEN /\ response' = Some(RedirectExpired)
                /\ admin_session' = NULL
           ELSE response'[1].updatedSession =>
                  /\ admin_session' # NULL
                  /\ admin_session'[1].lastActivity = now]_vars

\* C30: a request to a path under /api/letters/ that has no valid session
\* is answered 401 Unauthorized by the proxy.
C30_LettersNeedSession ==
  [][\A source \in AuthProxySources, path \in AuthProxyPaths,
        sent \in {"stored", "malformed"} :
       (proxyWithAuth("POST", source, path, NULL, sent) /\ IsApiLettersPath(path)) =>
         response' = Some(UnauthorizedResponse)]_vars

====
